---------------------------- MODULE Spec2Model ----------------------------
(***************************************************************************)
(* A model of ceda_datapoint.core.cloud: DataPointCloudProduct,            *)
(* DataPointCluster and _fetch_kerchunk_make_local.                        *)
(*                                                                         *)
(* Strings that the code searches or rewrites (hrefs, reference urls,      *)
(* error messages) are sequences of tokens, so that `in` and str.replace   *)
(* are computed, not assumed.  Python's None is the value None below.      *)
(* Dataset options that are only passed through (mapper_kwargs,            *)
(* open_zarr_kwargs, open_xarray_kwargs, cfa_options, **kwargs) and the    *)
(* product's own _meta / _properties are not part of the state.            *)
(***************************************************************************)
EXTENDS Naturals, Integers, Sequences, FiniteSets, TLC

VARIABLES
    files,      \* the local paths for which os.path.isfile is true
    product,    \* the DataPointCloudProduct under construction / use
    clusters,   \* the DataPointCluster objects the caller holds, oldest first
    heap,       \* the dict objects used as cluster metadata, by address
    result,     \* outcome of the last operation (arguments, exception, effects)
    fetch       \* outcome of the last _fetch_kerchunk_make_local call

vars == <<files, product, clusters, heap, result, fetch>>

-----------------------------------------------------------------------------
(* Bounds of the model *)

\* longest list of entries handed to DataPointCluster(...)
MaxEntries == 2
\* most clusters the caller holds at once when metadata dicts are shared
MaxClusters == 3
\* most pieces concatenated to form the url of a reference entry
MaxParts == 2
\* responses the remote server has ready for successive GET requests
StreamLen == 4

-----------------------------------------------------------------------------
(* Strings *)

None == "<None>"

\* 'https://'
Scheme == <<"https:", "/", "/">>
\* 'https://dap.ceda.ac.uk'
Host == <<"https:", "/", "/", "dap.ceda.ac.uk">>
\* 'https://dap.ceda.ac.uk/'
Prefix == <<"https:", "/", "/", "dap.ceda.ac.uk", "/">>
Slash == <<"/">>
Empty == <<>>

\* Python `pat in s`
Contains(s, pat) ==
    \E i \in 1 .. (Len(s) + 1) :
        /\ i + Len(pat) - 1 <= Len(s)
        /\ SubSeq(s, i, i + Len(pat) - 1) = pat

\* Python s.replace(old, new): every non-overlapping occurrence, left to right
RECURSIVE Replace(_, _, _)
Replace(s, old, new) ==
    IF Len(s) < Len(old) THEN s
    ELSE IF SubSeq(s, 1, Len(old)) = old
         THEN new \o Replace(SubSeq(s, Len(old) + 1, Len(s)), old, new)
         ELSE <<Head(s)>> \o Replace(Tail(s), old, new)

\* the hrefs of the assets: remote on the CEDA host, remote elsewhere, local
HrefCeda == Prefix \o <<"x">>
HrefOther == <<"https:", "/", "/", "other.org", "/", "x">>
HrefLocal == <<"/", "x">>
Hrefs == {HrefCeda, HrefOther, HrefLocal}

\* the paths os.path.isfile may be asked about
LocalPaths == {Replace(h, Host, Empty) : h \in Hrefs}


-----------------------------------------------------------------------------
(* Kerchunk reference documents *)

\* A value of the "refs" mapping: a JSON string (islist FALSE, items = <<text>>)
\* or a JSON list (islist TRUE); a 3-element list is [url, offset, length].
Scalar(text) == [islist |-> FALSE, items |-> <<text>>]
List(items) == [islist |-> TRUE, items |-> items]

UrlPieces == {Prefix, Host, Scheme, Slash, <<"x">>}

RECURSIVE UrlsOf(_)
UrlsOf(n) ==
    IF n = 0 THEN {Empty}
    ELSE UrlsOf(n - 1) \cup {u \o p : u \in UrlsOf(n - 1), p \in UrlPieces}

Urls == UrlsOf(MaxParts)

FewEntries ==
    { Scalar(<<"x">>), Scalar(HrefCeda),
      List(<<HrefCeda>>), List(<<HrefCeda, 10>>),
      List(<<HrefCeda \o <<"/", "y">>, 10, 20>>) }

Entries == FewEntries \cup {List(<<u, 10, 20>>) : u \in Urls}

\* a document is its "refs" mapping: key "a" always, key "b" sometimes
Doc(refs) == [refs |-> refs]
EmptyDoc == Doc([k \in {} |-> Scalar(Empty)])
DocsOver(as, bs) ==
    {Doc([k \in {"a"} |-> a]) : a \in as}
        \cup {Doc([k \in {"a", "b"} |-> IF k = "a" THEN a ELSE b]) : a \in as, b \in bs}

Docs == {EmptyDoc} \cup DocsOver(Entries, FewEntries)

\* the documents used where only the fetch, not the rewriting, is in question
DocRemote == Doc([k \in {"a", "b"} |-> IF k = "a" THEN List(<<HrefCeda, 10, 20>>) ELSE Scalar(<<"x">>)])
DocPlain == Doc([k \in {"a"} |-> List(<<HrefLocal, 10, 20>>)])

\* The text of a file or of a response body: JSON for a document, or not JSON.
JsonText(doc) == [json |-> TRUE, doc |-> doc]
NotJson == [json |-> FALSE, doc |-> EmptyDoc]

\* json.loads / json.load
JsonLoads(text) ==
    IF text.json THEN [raised |-> "", value |-> text.doc]
    ELSE [raised |-> "JSONDecodeError", value |-> EmptyDoc]

Response(code, text) == [status_code |-> code, text |-> text]

Responses ==
    { Response(200, JsonText(DocRemote)), Response(200, JsonText(DocPlain)),
      Response(200, NotJson), Response(404, JsonText(DocPlain)),
      Response(404, NotJson), Response(503, JsonText(DocRemote)) }

\* what the server answers to the 1st, 2nd, ... GET
Streams == [1 .. StreamLen -> Responses]

-----------------------------------------------------------------------------
(* _fetch_kerchunk_make_local *)

MsgDownload == <<"File ", "{href}", ": Download unsuccessful - could not download the file successfully (tried 3 times)">>

\* the retry budget of the while loop
MaxAttempts == 3

\* the loop with its bound off by one: `while attempts <= 3 and not success`
RECURSIVE FetchLoopOffByOne(_, _, _, _)
FetchLoopOffByOne(resps, attempts, success, resp) ==
    IF attempts <= MaxAttempts /\ ~success
    THEN LET r == resps[attempts + 1]
         IN  FetchLoopOffByOne(resps, attempts + 1, r.status_code = 200, r)
    ELSE [attempts |-> attempts, success |-> success, resp |-> resp]

\* the `while attempts < 3 and not success` loop; resp is the last response
RECURSIVE FetchLoop(_, _, _, _)
FetchLoop(resps, attempts, success, resp) ==
    IF attempts < MaxAttempts /\ ~success
    THEN LET r == resps[attempts + 1]
         IN  FetchLoop(resps, attempts + 1, r.status_code = 200, r)
    ELSE [attempts |-> attempts, success |-> success, resp |-> resp]

\* the rewriting without its `len(v) == 3` test
RewriteEntryAnyList(v) ==
    IF v.islist /\ Len(v.items) >= 1
    THEN IF Contains(v.items[1], Scheme)
         THEN [v EXCEPT !.items[1] = Replace(v.items[1], Prefix, Slash)]
         ELSE v
    ELSE v

\* the body of `for key in refs['refs'].keys()` for one value v
RewriteEntry(v) ==
    IF v.islist /\ Len(v.items) = 3
    THEN IF Contains(v.items[1], Scheme)
         THEN [v EXCEPT !.items[1] = Replace(v.items[1], Prefix, Slash)]
         ELSE v
    ELSE v

RewriteRefs(doc) == Doc([k \in DOMAIN doc.refs |-> RewriteEntry(doc.refs[k])])

NoResponse == Response(0, NotJson)

\* the whole function: the GET requests issued, the exception raised (if any),
\* the document parsed and the mapping returned
FetchKerchunkMakeLocal(href, isfile, localText, resps) ==
    LET href_local == Replace(href, Host, Empty)
        loop == FetchLoop(resps, 0, FALSE, NoResponse)
        remote == href_local \notin isfile
        gets == IF remote THEN loop.attempts ELSE 0
        failed == remote /\ loop.attempts >= MaxAttempts /\ ~loop.success
        loaded == JsonLoads(IF remote THEN loop.resp.text ELSE localText)
    IN  IF failed
        THEN [raised |-> "ValueError", msg |-> MsgDownload, gets |-> gets,
              parsed |-> EmptyDoc, refs |-> EmptyDoc]
        ELSE IF loaded.raised # ""
        THEN [raised |-> loaded.raised, msg |-> Empty, gets |-> gets,
              parsed |-> EmptyDoc, refs |-> EmptyDoc]
        ELSE [raised |-> "", msg |-> Empty, gets |-> gets,
              parsed |-> loaded.value, refs |-> RewriteRefs(loaded.value)]

-----------------------------------------------------------------------------
(* DataPointCloudProduct *)

\* the asset descriptor: a dict that has an 'href' or not
Asset(href) == [k \in {"href"} |-> href]
EmptyAsset == [k \in {} |-> Empty]
Assets == {Asset(h) : h \in Hrefs} \cup {EmptyAsset}

\* cf: the two supported formats, an unsupported one, '' and None
CloudFormats == {"kerchunk", "CFA", "zarr", "", None}
Modes == {"xarray", "cf-python"}

\* Python truthiness of a str-or-None
Falsy(v) == v \in {"", None}

MsgMode == <<"Only xarray mode currently implemented - cf-python is a future option">>
MsgNoFormat == <<"No cloud format given for this dataset">>
MsgAccess == <<"Href not reachable via https, please use local_only=True to open this dataset.">>
MsgFormat == <<"Cloud format not recognised - must be one of (", "kerchunk", ", ", "CFA", ")">>
MsgNoHref == <<"Cloud assets with no href are not supported">>
MsgNotLocated == <<"The requested resource could not be located: ", "{href}">>

\* requests.head(href): a response with a status code, or a connection error
HeadResp(code) == [raised |-> FALSE, status_code |-> code]
HeadError == [raised |-> TRUE, status_code |-> 0]
HeadOutcomes == {HeadResp(200), HeadResp(404), HeadResp(503), HeadError}

Product(id, cf, asset_stac, visibility) ==
    [id |-> id, cloud_format |-> cf, asset_stac |-> asset_stac, visibility |-> visibility]
NoProduct == Product(None, None, EmptyAsset, "")

\* _set_visibility returning as soon as the remote probe has answered
SetVisibilityNoLocalCheck(href, head, isfile) ==
    LET local_ref == Replace(href, Host, Empty)
    IN  IF Contains(href, Scheme)
        THEN IF head.raised THEN [raised |-> "ConnectionError", visibility |-> "all"]
             ELSE IF head.status_code # 200
             THEN [raised |-> "", visibility |-> "local-only"]
             ELSE [raised |-> "", visibility |-> "all"]
        ELSE [raised |-> "",
              visibility |-> IF local_ref \notin isfile THEN "unreachable" ELSE "all"]

\* _set_visibility, entered with visibility 'all' and an href
SetVisibility(href, head, isfile) ==
    LET local_ref == Replace(href, Host, Empty)
        local(vis) == IF local_ref \notin isfile THEN "unreachable" ELSE vis
    IN  IF Contains(href, Scheme)
        THEN IF head.raised THEN [raised |-> "ConnectionError", visibility |-> "all"]
             ELSE IF head.status_code # 200
             THEN [raised |-> "", visibility |-> local("local-only")]
             ELSE [raised |-> "", visibility |-> "all"]
        ELSE [raised |-> "", visibility |-> local("all")]

\* DataPointCloudProduct.__init__: the exception raised, or the new object
ProductInit(asset_stac, id, cf, mode, head, isfile) ==
    IF mode # "xarray"
    THEN [raised |-> "NotImplementedError", msg |-> MsgMode, obj |-> NoProduct]
    ELSE IF "href" \notin DOMAIN asset_stac
    THEN [raised |-> "KeyError", msg |-> <<"href">>, obj |-> NoProduct]
    ELSE LET v == SetVisibility(asset_stac["href"], head, isfile)
         IN  IF v.raised # ""
             THEN [raised |-> v.raised, msg |-> Empty, obj |-> NoProduct]
             ELSE [raised |-> "", msg |-> Empty,
                   obj |-> Product(id, cf, asset_stac, v.visibility)]

\* what reaches the dataset engine: the function called and its location
\* argument, an href string or an in-memory reference mapping
NoEngine == [fn |-> "", kind |-> "", href |-> Empty, refs |-> EmptyDoc]
EngineHref(fn, href) == [fn |-> fn, kind |-> "href", href |-> href, refs |-> EmptyDoc]
EngineRefs(fn, doc) == [fn |-> fn, kind |-> "refs", href |-> Empty, refs |-> doc]

\* outcome of an open: exception, GET requests issued, engine call, value
Raise(exc, msg, gets) ==
    [raised |-> exc, msg |-> msg, gets |-> gets, engine |-> NoEngine, value |-> ""]
Opened(gets, engine, found) ==
    IF found
    THEN [raised |-> "", msg |-> Empty, gets |-> gets, engine |-> engine, value |-> "Dataset"]
    ELSE [raised |-> "FileNotFoundError", msg |-> Empty, gets |-> gets,
          engine |-> engine, value |-> ""]

\* _open_kerchunk
OpenKerchunk(p, local_only, isfile, localText, resps, found) ==
    IF "href" \notin DOMAIN p.asset_stac THEN Raise("ValueError", MsgNoHref, 0)
    ELSE LET href == p.asset_stac["href"]
             f == FetchKerchunkMakeLocal(href, isfile, localText, resps)
         IN  IF local_only
             THEN IF f.raised # "" THEN Raise(f.raised, f.msg, f.gets)
                  ELSE Opened(f.gets, EngineRefs("open_zarr", f.refs), found)
             ELSE Opened(0, EngineHref("open_zarr", href), found)

\* _open_cfa
OpenCfa(p, found) ==
    IF "href" \notin DOMAIN p.asset_stac THEN Raise("ValueError", MsgNoHref, 0)
    ELSE Opened(0, EngineHref("open_dataset", p.asset_stac["href"]), found)

\* the try block with its final else taken for CFA
DispatchElseCfa(p, local_only, isfile, localText, resps, found) ==
    IF p.cloud_format = "kerchunk"
    THEN OpenKerchunk(p, local_only, isfile, localText, resps, found)
    ELSE OpenCfa(p, found)

\* the try block of open_dataset
Dispatch(p, local_only, isfile, localText, resps, found) ==
    IF p.cloud_format = "kerchunk"
    THEN OpenKerchunk(p, local_only, isfile, localText, resps, found)
    ELSE IF p.cloud_format = "CFA" THEN OpenCfa(p, found)
    ELSE Raise("ValueError", MsgFormat, 0)

\* DataPointCloudProduct.open_dataset
ProductOpenDataset(p, local_only, isfile, localText, resps, found) ==
    IF Falsy(p.cloud_format) THEN Raise("ValueError", MsgNoFormat, 0)
    ELSE IF p.visibility = "local-only" /\ ~local_only
    THEN Raise("ValueError", MsgAccess, 0)
    ELSE LET r == Dispatch(p, local_only, isfile, localText, resps, found)
         IN  IF r.raised = "FileNotFoundError"
             THEN [r EXCEPT !.msg = MsgNotLocated]
             ELSE r

-----------------------------------------------------------------------------
(* DataPointCluster *)

\* An insertion-ordered dict is a sequence of (key, value) pairs with
\* distinct keys.
Keys(d) == [i \in 1 .. Len(d) |-> d[i].key]
Values(d) == [i \in 1 .. Len(d) |-> d[i].value]
HasKey(d, k) == \E i \in 1 .. Len(d) : d[i].key = k
Lookup(d, k) == d[CHOOSE i \in 1 .. Len(d) : d[i].key = k].value

\* d[k] = v: a present key keeps its position, a new key goes last
DictSet(d, k, v) ==
    IF HasKey(d, k)
    THEN [i \in 1 .. Len(d) |-> IF d[i].key = k THEN [key |-> k, value |-> v] ELSE d[i]]
    ELSE Append(d, [key |-> k, value |-> v])

\* a metadata dict: a function from some of these keys to numbers
EmptyMeta == [k \in {} |-> 0]
MetaPut(d, key, val) == [k \in DOMAIN d \cup {key} |-> IF k = key THEN val ELSE d[k]]

\* the address that stands for meta=None
NoMeta == 0

Cluster(products, local_only, show_unreachable, meta) ==
    [products |-> products, local_only |-> local_only,
     show_unreachable |-> show_unreachable, meta |-> meta]
NoCluster == Cluster(<<>>, FALSE, FALSE, NoMeta)

\* an entry of the list given to the constructor
EntryProduct(p) == [kind |-> "product", product |-> p, cluster |-> NoCluster]
EntryCluster(c) == [kind |-> "cluster", product |-> NoProduct, cluster |-> c]
EntryNone == [kind |-> "none", product |-> NoProduct, cluster |-> NoCluster]

Visible(c, v) == v.visibility # "unreachable" \/ c.show_unreachable

\* the `products` property
ClusterProducts(c) == SelectSeq(Values(c.products), LAMBDA v : Visible(c, v))

\* for sub_p in p.products: self._products[sub_p.id] = sub_p
RECURSIVE MergeAll(_, _)
MergeAll(d, ps) ==
    IF ps = <<>> THEN d
    ELSE MergeAll(DictSet(d, Head(ps).id, Head(ps)), Tail(ps))

\* for p in products: ...
RECURSIVE Flatten(_, _)
Flatten(d, entries) ==
    IF entries = <<>> THEN d
    ELSE LET p == Head(entries)
             d1 == IF p.kind = "cluster" THEN MergeAll(d, ClusterProducts(p.cluster))
                   ELSE IF p.kind # "none" THEN DictSet(d, p.product.id, p.product)
                   ELSE d
         IN  Flatten(d1, Tail(entries))

\* DataPointCluster.__init__: the new object and the heap it leaves.  `meta`
\* is the address of the caller's dict, or NoMeta.
ClusterInit(entries, meta, local_only, show_unreachable, h) ==
    LET fresh == meta = NoMeta \/ h[meta] = EmptyMeta
        addr == IF fresh THEN Len(h) + 1 ELSE meta
        h1 == IF fresh THEN Append(h, EmptyMeta) ELSE h
    IN  [obj |-> Cluster(Flatten(<<>>, entries), local_only, show_unreachable, addr),
         heap |-> [h1 EXCEPT ![addr] = MetaPut(h1[addr], "products", Len(entries))]]

\* an index given to cluster[...] or open_dataset: an int or a str
IntKey(n) == [isint |-> TRUE, n |-> n, s |-> ""]
StrKey(s) == [isint |-> FALSE, n |-> 0, s |-> s]
NoKey == StrKey("")

\* list(self._products.keys())[index]: Python list indexing by an int
ListIndexOk(d, n) == -Len(d) <= n /\ n < Len(d)
ListIndex(d, n) == IF n >= 0 THEN Keys(d)[n + 1] ELSE Keys(d)[Len(d) + n + 1]

MsgNotFound == <<"{index}", " not found in available products.">>
MsgRange == <<"list index out of range">>

\* DataPointCluster.__getitem__
GetItem(c, index) ==
    IF index.isint /\ ~ListIndexOk(c.products, index.n)
    THEN [raised |-> "IndexError", msg |-> MsgRange, returned |-> NoProduct]
    ELSE LET id == IF index.isint THEN ListIndex(c.products, index.n) ELSE index.s
         IN  IF ~HasKey(c.products, id)
             THEN [raised |-> "IndexError", msg |-> MsgNotFound, returned |-> NoProduct]
             ELSE [raised |-> "", msg |-> Empty, returned |-> Lookup(c.products, id)]

\* outcome of DataPointCluster.open_dataset: the product's outcome, and
\* whether a warning was logged, whether the product's open_dataset was
\* called and with which local_only
Early(exc, msg, value, logged) ==
    [raised |-> exc, msg |-> msg, gets |-> 0, engine |-> NoEngine, value |-> value,
     logged |-> logged, called |-> FALSE, passed_local_only |-> FALSE, target |-> NoProduct]

\* open_dataset forgetting the default given to the constructor
ClusterOpenDatasetNoDefault(c, id, mode, local_only, isfile, localText, resps, found) ==
    LET lo == local_only
    IN  IF mode # "xarray" THEN Early("NotImplementedError", MsgMode, "", FALSE)
        ELSE IF id.isint /\ ~ListIndexOk(c.products, id.n)
        THEN Early("IndexError", MsgRange, "", FALSE)
        ELSE LET key == IF id.isint THEN ListIndex(c.products, id.n) ELSE id.s
             IN  IF ~HasKey(c.products, key) THEN Early("", Empty, "None", TRUE)
                 ELSE LET p == Lookup(c.products, key)
                          r == ProductOpenDataset(p, lo, isfile, localText, resps, found)
                      IN  [raised |-> r.raised, msg |-> r.msg, gets |-> r.gets,
                           engine |-> r.engine, value |-> r.value, logged |-> FALSE,
                           called |-> TRUE, passed_local_only |-> lo, target |-> p]

\* DataPointCluster.open_dataset
ClusterOpenDataset(c, id, mode, local_only, isfile, localText, resps, found) ==
    LET lo == local_only \/ c.local_only
    IN  IF mode # "xarray" THEN Early("NotImplementedError", MsgMode, "", FALSE)
        ELSE IF id.isint /\ ~ListIndexOk(c.products, id.n)
        THEN Early("IndexError", MsgRange, "", FALSE)
        ELSE LET key == IF id.isint THEN ListIndex(c.products, id.n) ELSE id.s
             IN  IF ~HasKey(c.products, key) THEN Early("", Empty, "None", TRUE)
                 ELSE LET p == Lookup(c.products, key)
                          r == ProductOpenDataset(p, lo, isfile, localText, resps, found)
                      IN  [raised |-> r.raised, msg |-> r.msg, gets |-> r.gets,
                           engine |-> r.engine, value |-> r.value, logged |-> FALSE,
                           called |-> TRUE, passed_local_only |-> lo, target |-> p]

-----------------------------------------------------------------------------
(* State *)

\* `result` when nothing has been called yet
Idle ==
    [op |-> "", raised |-> "", msg |-> Empty,
     \* arguments (self: which of the caller's clusters, 0 for none)
     self |-> 0, asset_stac |-> EmptyAsset, cloud_format |-> None, mode |-> "",
     key |-> NoKey, local_only |-> FALSE, entries |-> <<>>, meta |-> NoMeta,
     \* what the environment answered
     head |-> HeadError, local_exists |-> FALSE,
     \* effects and return value
     gets |-> 0, engine |-> NoEngine, value |-> "", logged |-> FALSE,
     called |-> FALSE, passed_local_only |-> FALSE,
     target |-> NoProduct, returned |-> NoProduct]

\* `fetch` for a call of _fetch_kerchunk_make_local(href) that is about to be
\* made: resps is what the server will answer, text the content of the local file
FetchCall(href, resps, text) ==
    [href |-> href, resps |-> resps, text |-> text, done |-> FALSE,
     local_exists |-> FALSE, raised |-> "", msg |-> Empty, gets |-> 0,
     parsed |-> EmptyDoc, refs |-> EmptyDoc]

\* a server that answers 404 to everything
StreamDown == [i \in 1 .. StreamLen |-> Response(404, NotJson)]
\* a server that serves the reference document
StreamUp == [i \in 1 .. StreamLen |-> Response(200, JsonText(DocRemote))]
\* a server that fails once, then serves another document
StreamFlaky ==
    [i \in 1 .. StreamLen |->
        IF i = 1 THEN Response(503, JsonText(DocRemote)) ELSE Response(200, JsonText(DocPlain))]
FewStreams == {StreamDown, StreamUp, StreamFlaky}
FewTexts == {JsonText(DocRemote), NotJson}

NoFetch == FetchCall(Empty, <<>>, NotJson)

\* the caller's own dicts, at addresses 1 and 2: a non-empty one and an empty one
InitHeap == << [k \in {"k"} |-> 7], EmptyMeta >>
CallerMetas == {1, 2}

-----------------------------------------------------------------------------
(* Products: construction, opening, and the filesystem changing underneath *)

InitProduct ==
    /\ files \in SUBSET LocalPaths
    /\ product = NoProduct
    /\ clusters = <<>>
    /\ heap = InitHeap
    /\ result = Idle
    /\ fetch = NoFetch

\* product = DataPointCloudProduct(asset_stac, id='p1', cf=cf, mode=mode, ...);
\* when the constructor raises, no object is bound
NewProduct ==
    /\ product = NoProduct
    /\ \E asset \in Assets, cf \in CloudFormats, mode \in Modes, head \in HeadOutcomes :
        LET r == ProductInit(asset, "p1", cf, mode, head, files)
        IN  /\ product' = r.obj
            /\ result' = [Idle EXCEPT !.op = "DataPointCloudProduct",
                              !.raised = r.raised, !.msg = r.msg,
                              !.asset_stac = asset, !.cloud_format = cf, !.mode = mode,
                              !.head = head,
                              !.local_exists = /\ "href" \in DOMAIN asset
                                               /\ Replace(asset["href"], Host, Empty) \in files,
                              !.returned = r.obj]
    /\ UNCHANGED <<files, clusters, heap, fetch>>

\* product.open_dataset(local_only=local_only)
OpenProduct ==
    /\ product # NoProduct
    /\ \E local_only \in BOOLEAN, text \in FewTexts, resps \in FewStreams, found \in BOOLEAN :
        LET r == ProductOpenDataset(product, local_only, files, text, resps, found)
        IN  result' = [Idle EXCEPT !.op = "open_dataset",
                           !.raised = r.raised, !.msg = r.msg, !.local_only = local_only,
                           !.gets = r.gets, !.engine = r.engine, !.value = r.value,
                           !.called = TRUE, !.passed_local_only = local_only,
                           !.target = product]
    /\ UNCHANGED <<files, product, clusters, heap, fetch>>

\* a local file appears or disappears
FsChange ==
    /\ \E path \in LocalPaths :
        files' = IF path \in files THEN files \ {path} ELSE files \cup {path}
    /\ UNCHANGED <<product, clusters, heap, result, fetch>>

\* del product: the caller lets go of the object
DelProduct ==
    /\ product # NoProduct
    /\ product' = NoProduct
    /\ result' = Idle
    /\ UNCHANGED <<files, clusters, heap, fetch>>

NextProduct == NewProduct \/ OpenProduct \/ FsChange \/ DelProduct

SpecProduct == InitProduct /\ [][NextProduct]_vars

-----------------------------------------------------------------------------
(* The localisation of one reference document *)

InitFetch ==
    /\ files \in SUBSET LocalPaths
    /\ product = NoProduct
    /\ clusters = <<>>
    /\ heap = InitHeap
    /\ result = Idle
    /\ \E href \in Hrefs :
          IF Replace(href, Host, Empty) \in files
          THEN \E text \in {JsonText(d) : d \in Docs} \cup {NotJson} :
                   fetch = FetchCall(href, StreamDown, text)
          ELSE \E resps \in Streams : fetch = FetchCall(href, resps, NotJson)

\* _fetch_kerchunk_make_local(href)
Fetch ==
    /\ ~fetch.done
    /\ LET r == FetchKerchunkMakeLocal(fetch.href, files, fetch.text, fetch.resps)
       IN  fetch' = [fetch EXCEPT !.done = TRUE,
                         !.local_exists = Replace(fetch.href, Host, Empty) \in files,
                         !.raised = r.raised, !.msg = r.msg, !.gets = r.gets,
                         !.parsed = r.parsed, !.refs = r.refs]
    /\ UNCHANGED <<files, product, clusters, heap, result>>

NextFetch == Fetch

SpecFetch == InitFetch /\ [][NextFetch]_vars

-----------------------------------------------------------------------------
(* Clusters: construction from products and nested clusters, indexing, opening *)

\* Products as the constructor leaves them: reachable on the CEDA host;
\* a local path that does not exist; remote probe refused but the local copy
\* present, with and without a cloud format.
ProductA == ProductInit(Asset(HrefCeda), "p1", "kerchunk", "xarray", HeadResp(200), {}).obj
ProductB == ProductInit(Asset(HrefLocal), "p1", "CFA", "xarray", HeadResp(200), {}).obj
ProductC == ProductInit(Asset(HrefCeda), "p2", "kerchunk", "xarray", HeadResp(404), {HrefLocal}).obj
ProductD == ProductInit(Asset(HrefCeda), "p2", None, "xarray", HeadResp(503), {HrefLocal}).obj
ProductPool == {ProductA, ProductB, ProductC, ProductD}

\* Clusters built earlier from [ProductB, ProductC], hiding or showing the
\* unreachable ProductB.
NestedHidden == ClusterInit(<<EntryProduct(ProductB), EntryProduct(ProductC)>>, NoMeta, FALSE, FALSE, InitHeap).obj
NestedShown == ClusterInit(<<EntryProduct(ProductB), EntryProduct(ProductC)>>, NoMeta, FALSE, TRUE, InitHeap).obj

EntryPool ==
    {EntryProduct(p) : p \in ProductPool} \cup {EntryNone}
        \cup {EntryCluster(NestedHidden), EntryCluster(NestedShown)}

StrKeys == {StrKey("p1"), StrKey("p2"), StrKey("zz")}
IntKeys == {IntKey(n) : n \in -3 .. 2}
IndexKeys == StrKeys \cup IntKeys

InitCluster ==
    /\ files = {}
    /\ product = NoProduct
    /\ clusters = <<>>
    /\ heap = InitHeap
    /\ result = Idle
    /\ fetch = NoFetch

\* DataPointCluster(entries, meta=meta, local_only=..., show_unreachable=...)
\* while the caller holds fewer than `limit` clusters; an entry is one of
\* `pool` or a cluster the caller holds
NewCluster(limit, pool, metas, flags) ==
    /\ Len(clusters) < limit
    /\ \E n \in 0 .. MaxEntries :
       \E entries \in [1 .. n -> pool \cup {EntryCluster(clusters[i]) : i \in 1 .. Len(clusters)}] :
       \E meta \in metas, local_only \in flags, show_unreachable \in flags :
          LET r == ClusterInit(entries, meta, local_only, show_unreachable, heap)
          IN  /\ clusters' = Append(clusters, r.obj)
              /\ heap' = r.heap
              /\ result' = [Idle EXCEPT !.op = "DataPointCluster",
                                !.self = Len(clusters) + 1, !.entries = entries,
                                !.meta = meta, !.local_only = local_only]
    /\ UNCHANGED <<files, product, fetch>>

\* the caller holds one cluster at a time, built without a meta argument
NewClusterAlone == NewCluster(1, EntryPool, {NoMeta}, BOOLEAN)

\* cluster[index]
IndexCluster ==
    /\ clusters # <<>>
    /\ \E c \in 1 .. Len(clusters), index \in IndexKeys :
        LET r == GetItem(clusters[c], index)
        IN  result' = [Idle EXCEPT !.op = "getitem", !.self = c, !.key = index,
                           !.raised = r.raised,
                           !.msg = r.msg, !.returned = r.returned]
    /\ UNCHANGED <<files, product, clusters, heap, fetch>>

\* cluster.open_dataset(id, mode=mode, local_only=local_only)
OpenCluster ==
    /\ clusters # <<>>
    /\ \E c \in 1 .. Len(clusters), id \in IndexKeys, mode \in Modes, local_only \in BOOLEAN :
       \E resps \in {StreamUp, StreamDown}, found \in BOOLEAN :
        LET r == ClusterOpenDataset(clusters[c], id, mode, local_only, files, NotJson, resps, found)
        IN  result' = [Idle EXCEPT !.op = "open_dataset", !.self = c, !.key = id, !.mode = mode,
                           !.local_only = local_only, !.raised = r.raised, !.msg = r.msg,
                           !.gets = r.gets, !.engine = r.engine, !.value = r.value,
                           !.logged = r.logged, !.called = r.called,
                           !.passed_local_only = r.passed_local_only, !.target = r.target]
    /\ UNCHANGED <<files, product, clusters, heap, fetch>>

\* the caller lets go of its clusters; their own dicts go with them
DropClusters ==
    /\ clusters # <<>>
    /\ clusters' = <<>>
    /\ heap' = SubSeq(heap, 1, Len(InitHeap))
    /\ result' = Idle
    /\ UNCHANGED <<files, product, fetch>>

NextCluster == NewClusterAlone \/ IndexCluster \/ OpenCluster \/ DropClusters

SpecCluster == InitCluster /\ [][NextCluster]_vars

-----------------------------------------------------------------------------
(* Clusters built one after another, some of them with the caller's own meta *)

\* the entries used where only the metadata is in question
MetaEntryPool == {EntryProduct(ProductA), EntryNone}

NewClusterShared == NewCluster(MaxClusters, MetaEntryPool, {NoMeta} \cup CallerMetas, {FALSE})

NextMeta == NewClusterShared \/ DropClusters

SpecMeta == InitCluster /\ [][NextMeta]_vars

-----------------------------------------------------------------------------
(* Properties of DataPointCloudProduct, under SpecProduct *)

\* the constructor has just returned an object for an asset with an href
Constructed == result.op = "DataPointCloudProduct" /\ result.raised = ""
\* ... whose href contains 'https://' and whose HEAD probe answered other than 200
ProbeRefused ==
    /\ Constructed
    /\ Contains(result.asset_stac["href"], Scheme)
    /\ ~result.head.raised
    /\ result.head.status_code # 200

\* C1 as stated: a product built from an href containing 'https://' whose HEAD
\* probe returns a status other than 200 has visibility 'local-only', whether
\* or not the local path exists.
C1_AlwaysLocalOnly == ProbeRefused => result.returned.visibility = "local-only"

\* C1 amended: such a product has visibility 'local-only' when the path left
\* by stripping 'https://dap.ceda.ac.uk' is a file, and 'unreachable' when it
\* is not.
C1_LocalOnlyIfLocalCopy ==
    ProbeRefused =>
        result.returned.visibility =
            IF result.local_exists THEN "local-only" ELSE "unreachable"

C1_Witness ==
    /\ ProbeRefused
    /\ result.asset_stac["href"] = HrefCeda
    /\ result.local_exists
    /\ product.visibility = "local-only"

\* C5: for an asset descriptor without 'href' and either supported format,
\* the constructor returns an object, and open_dataset on it raises the
\* ValueError 'Cloud assets with no "href" are not supported' and nothing else.
C5_NoHrefFailsAtOpen ==
    /\ ( /\ result.op = "DataPointCloudProduct"
         /\ result.mode = "xarray"
         /\ "href" \notin DOMAIN result.asset_stac
         /\ result.cloud_format \in {"kerchunk", "CFA"} )
       => result.raised = ""
    /\ ( /\ result.op = "open_dataset"
         /\ "href" \notin DOMAIN result.target.asset_stac
         /\ result.target.cloud_format \in {"kerchunk", "CFA"} )
       => (result.raised = "ValueError" /\ result.msg = MsgNoHref)

\* the message names both supported formats
NamesBothFormats(msg) == Contains(msg, <<"kerchunk">>) /\ Contains(msg, <<"CFA">>)

\* open_dataset has just been called on a product whose format is not supported
OpenedUnsupported ==
    /\ result.op = "open_dataset"
    /\ result.target.cloud_format \notin {"kerchunk", "CFA"}

\* C6 as stated: whatever the visibility and local_only, opening a product
\* whose format is outside {kerchunk, CFA} (unset and empty included) raises
\* the error that names the two supported formats, and no open is reached.
C6_AlwaysNamesFormats ==
    OpenedUnsupported =>
        /\ result.raised = "ValueError"
        /\ NamesBothFormats(result.msg)
        /\ result.engine = NoEngine
        /\ result.gets = 0

\* C6 amended: opening such a product always raises ValueError before any
\* fetch or engine call; the message is 'No cloud format given' for an unset
\* or empty format, else the access error when visibility is 'local-only' and
\* local_only is false, else the one naming the two supported formats.
C6_UnsupportedFormatErrors ==
    OpenedUnsupported =>
        /\ result.raised = "ValueError"
        /\ result.engine = NoEngine
        /\ result.gets = 0
        /\ result.msg =
              IF result.target.cloud_format \in {"", None} THEN MsgNoFormat
              ELSE IF result.target.visibility = "local-only" /\ ~result.local_only
              THEN MsgAccess
              ELSE MsgFormat
        /\ NamesBothFormats(result.msg) <=>
              /\ result.target.cloud_format \notin {"", None}
              /\ ~(result.target.visibility = "local-only" /\ ~result.local_only)

C6_Witness ==
    /\ OpenedUnsupported
    /\ result.target.cloud_format = "zarr"
    /\ result.target.visibility = "local-only"
    /\ result.local_only
    /\ result.raised = "ValueError"
    /\ NamesBothFormats(result.msg)

\* C7: when a kerchunk or CFA product is opened with local_only true, what
\* reaches the dataset engine is never the 'https://dap.ceda.ac.uk' href itself.
C7_LocalOnlyNeverRemoteHref ==
    ( /\ result.op = "open_dataset"
      /\ result.local_only
      /\ result.target.cloud_format \in {"kerchunk", "CFA"}
      /\ result.engine # NoEngine )
    => ~(result.engine.kind = "href" /\ Contains(result.engine.href, Host))

-----------------------------------------------------------------------------
(* Properties of DataPointCluster, under SpecCluster *)

\* every product object supplied: the direct ones, and for a nested cluster
\* all the products it holds, in the order given
RECURSIVE Supplied(_)
Supplied(entries) ==
    IF entries = <<>> THEN <<>>
    ELSE LET p == Head(entries)
             here == IF p.kind = "cluster" THEN Values(p.cluster.products)
                     ELSE IF p.kind = "product" THEN <<p.product>>
                     ELSE <<>>
         IN  here \o Supplied(Tail(entries))

\* C2: the mapping of a cluster built from products, nested clusters and None
\* has as keys exactly the ids of the direct products and of every product
\* held by each nested cluster, whatever its visibility; each id once, mapped
\* to the last supplied object with that id; every value is a product.
C2_FlattenKeepsEveryProduct ==
    result.op = "DataPointCluster" =>
        LET d == clusters[result.self].products
            sup == Supplied(result.entries)
        IN  /\ {d[i].key : i \in 1 .. Len(d)} = {sup[j].id : j \in 1 .. Len(sup)}
            /\ \A i, j \in 1 .. Len(d) : d[i].key = d[j].key => i = j
            /\ \A i \in 1 .. Len(d) :
                  \E j \in 1 .. Len(sup) :
                      /\ sup[j].id = d[i].key
                      /\ \A k \in (j + 1) .. Len(sup) : sup[k].id # d[i].key
                      /\ d[i].value = sup[j]
            /\ \A i \in 1 .. Len(d) : d[i].value \in ProductPool

\* the key names a contained product: a present id, or a position Python's
\* list indexing accepts
Resolves(c, key) ==
    IF key.isint THEN ListIndexOk(c.products, key.n) ELSE HasKey(c.products, key.s)

\* C3: for a key that resolves to no contained product (integer positions
\* out of range included), cluster[key] raises a lookup error, while
\* open_dataset(key) in mode 'xarray' raises nothing, logs a warning and
\* returns None.
C3_MissingKeyAsymmetry ==
    /\ (result.op = "getitem" /\ ~Resolves(clusters[result.self], result.key))
          => result.raised = "IndexError"
    /\ ( /\ result.op = "open_dataset"
         /\ result.mode = "xarray"
         /\ ~Resolves(clusters[result.self], result.key) )
          => (result.raised = "" /\ result.logged /\ result.value = "None")

\* cluster.open_dataset has resolved its key to a product that is 'local-only'
OpenedLocalOnlyProduct ==
    /\ result.op = "open_dataset"
    /\ result.called
    /\ result.target.visibility = "local-only"

\* the call failed with the access error, before any fetch or engine call
AccessRefused ==
    /\ result.raised = "ValueError"
    /\ result.msg = MsgAccess
    /\ result.gets = 0
    /\ result.engine = NoEngine

\* C4 as stated: when cluster.open_dataset resolves to a 'local-only' product,
\* it fails with the access error exactly when the cluster's default and the
\* argument are both false; if either is true the product is opened with
\* local_only true.
C4_AccessErrorIffBothFalse ==
    OpenedLocalOnlyProduct =>
        LET either == clusters[result.self].local_only \/ result.local_only
        IN  /\ AccessRefused <=> ~either
            /\ result.passed_local_only = either

\* C4 amended: the same for a 'local-only' product whose cloud format is set;
\* one whose format is unset fails with 'No cloud format given' whatever the
\* two flags, and is still called with their disjunction.
C4_AccessErrorIffBothFalseAndFormatSet ==
    OpenedLocalOnlyProduct =>
        LET either == clusters[result.self].local_only \/ result.local_only
        IN  /\ result.passed_local_only = either
            /\ IF result.target.cloud_format \in {"", None}
               THEN result.raised = "ValueError" /\ result.msg = MsgNoFormat
               ELSE AccessRefused <=> ~either

C4_Witness ==
    /\ OpenedLocalOnlyProduct
    /\ result.target.cloud_format = "kerchunk"
    /\ clusters[result.self].local_only
    /\ ~result.local_only
    /\ result.passed_local_only
    /\ result.value = "Dataset"

-----------------------------------------------------------------------------
(* Properties of the cluster metadata, under SpecMeta *)

\* C10: constructing a further cluster leaves every dict that existed before
\* the call as it was: the metadata of the clusters built earlier (their
\* 'products' count included) and the caller's own meta argument.
C10_ConstructorLeavesOtherMetaAlone ==
    [][Len(clusters') > Len(clusters) =>
          \A a \in 1 .. Len(heap) : heap'[a] = heap[a]]_vars

-----------------------------------------------------------------------------
(* Properties of _fetch_kerchunk_make_local, under SpecFetch *)

\* the call has returned or raised, and the local file did not exist
FetchedRemotely == fetch.done /\ ~fetch.local_exists

\* the positions, among the first three responses, of those with status 200
Ok200 == {i \in 1 .. 3 : fetch.resps[i].status_code = 200}
First200 == CHOOSE i \in Ok200 : \A j \in Ok200 : i <= j

\* C8: when the local file does not exist, the loop issues exactly k GET
\* requests, k the position of the first 200 among the first three responses
\* and 3 if there is none; never a fourth; it raises the download error
\* exactly when all three are non-200; otherwise what is parsed is the body of
\* that 200 response.
C8_RetryLoop ==
    FetchedRemotely =>
        /\ fetch.gets = IF Ok200 # {} THEN First200 ELSE 3
        /\ fetch.gets <= 3
        /\ (fetch.raised = "ValueError" /\ fetch.msg = MsgDownload) <=> Ok200 = {}
        /\ Ok200 # {} =>
              LET body == fetch.resps[First200].text
              IN  IF body.json
                  THEN fetch.raised = "" /\ fetch.parsed = body.doc
                  ELSE fetch.raised = "JSONDecodeError"

C8_Witness ==
    /\ FetchedRemotely
    /\ fetch.resps[1].status_code = 503
    /\ fetch.resps[2] = Response(200, JsonText(DocPlain))
    /\ fetch.gets = 2
    /\ fetch.raised = ""
    /\ fetch.parsed = DocPlain

\* s with every occurrence of 'https://dap.ceda.ac.uk/' cut down to its final
\* '/': the tokens of the scheme and the host are dropped, all others kept
WithoutSchemeAndHost(s) ==
    LET occ == {i \in 1 .. Len(s) : i + 4 <= Len(s) /\ SubSeq(s, i, i + 4) = Prefix}
        kept(j) == \A i \in occ : j < i \/ j > i + 3
        upto[n \in 0 .. Len(s)] ==
            IF n = 0 THEN <<>>
            ELSE IF kept(n) THEN Append(upto[n - 1], s[n]) ELSE upto[n - 1]
    IN  upto[Len(s)]

\* C9: the returned document has the keys of the parsed one; an entry that is
\* a 3-element list whose first element contains 'https://dap.ceda.ac.uk/'
\* has that prefix replaced by '/' in its first element, offset and length
\* kept; every other entry is the one parsed.
C9_RewriteRefs ==
    (fetch.done /\ fetch.raised = "") =>
        LET old == fetch.parsed.refs
            new == fetch.refs.refs
        IN  /\ DOMAIN new = DOMAIN old
            /\ \A k \in DOMAIN old :
                  IF old[k].islist /\ Len(old[k].items) = 3 /\ Contains(old[k].items[1], Prefix)
                  THEN /\ new[k].islist
                       /\ new[k].items =
                             <<WithoutSchemeAndHost(old[k].items[1]), old[k].items[2], old[k].items[3]>>
                       /\ new[k] # old[k]
                  ELSE new[k] = old[k]

C9_Witness ==
    /\ fetch.done
    /\ fetch.raised = ""
    /\ DOMAIN fetch.parsed.refs = {"a", "b"}
    /\ fetch.parsed.refs["a"] = List(<<Prefix \o <<"x", "/", "y">>, 10, 20>>)
    /\ fetch.refs.refs["a"] = List(<<<<"/", "x", "/", "y">>, 10, 20>>)
    /\ fetch.parsed.refs["b"] = Scalar(HrefCeda)
    /\ fetch.refs.refs["b"] = Scalar(HrefCeda)

=============================================================================
